---- MODULE Spec2Model ----
(***************************************************************************)
(* The /save and /load slash commands of the CLI: saveAction (saveCommand), *)
(* loadAction and completion (loadCommand), over one project's archive      *)
(* directory, metadata sidecar, project root and OS temp directory.         *)
(*                                                                         *)
(* Every handler is an async function: it runs without interruption from    *)
(* one await to the next.  An invocation is a process whose pc names the    *)
(* awaited operation that is pending; one action is the completion of that  *)
(* operation (with or without an error) followed by the synchronous code    *)
(* up to the next await or to the return.                                   *)
(*                                                                         *)
(* A string is a sequence of lexemes.  A lexeme is a piece of text the code *)
(* only ever handles whole (a literal of the source, a digit, a separator). *)
(***************************************************************************)
EXTENDS Integers, Sequences, FiniteSets, TLC

(***************************************************************************)
(* Bounds of the model.                                                     *)
(***************************************************************************)
MaxProcs == 2
MaxInvocations == 2
MaxMs == 1
MaxClock == 1001
MaxEdits == 1

Procs == 1..MaxProcs

(***************************************************************************)
(* Strings.                                                                 *)
(***************************************************************************)
startsWith(s, prefix) ==
    /\ Len(prefix) <= Len(s)
    /\ SubSeq(s, 1, Len(prefix)) = prefix

endsWith(s, suffix) ==
    /\ Len(suffix) <= Len(s)
    /\ SubSeq(s, Len(s) - Len(suffix) + 1, Len(s)) = suffix

\* s contains t as a contiguous substring
Contains(s, t) ==
    \E i \in 1..(Len(s) - Len(t) + 1) : SubSeq(s, i, i + Len(t) - 1) = t

WhiteSpace == {" ", "\t", "\n"}

RECURSIVE trimStart(_)
trimStart(s) ==
    IF s # <<>> /\ Head(s) \in WhiteSpace THEN trimStart(Tail(s)) ELSE s

RECURSIVE trimEnd(_)
trimEnd(s) ==
    IF s # <<>> /\ s[Len(s)] \in WhiteSpace
    THEN trimEnd(SubSeq(s, 1, Len(s) - 1))
    ELSE s

\* a trim that leaves the trailing whitespace
trimStartOnly(s) == trimStart(s)

\* String.prototype.trim
trim(s) == trimEnd(trimStart(s))

Digits == <<"0", "1", "2", "3", "4", "5", "6", "7", "8", "9">>

RECURSIVE String(_)
\* String(n) for a natural number n
String(n) ==
    IF n < 10 THEN <<Digits[n + 1]>> ELSE String(n \div 10) \o <<Digits[(n % 10) + 1]>>

RECURSIVE padStart(_, _, _)
\* s.padStart(targetLength, padString) for a one-lexeme padString
padStart(s, targetLength, padString) ==
    IF Len(s) >= targetLength THEN s ELSE padStart(<<padString>> \o s, targetLength, padString)

(***************************************************************************)
(* Date: the local-time fields of a timestamp (milliseconds since the       *)
(* epoch).  The model's clock stays within January 1970, where the fields   *)
(* below are the calendar's, and the local zone has offset 0.               *)
(***************************************************************************)
getSeconds(ts) == (ts \div 1000) % 60
getMinutes(ts) == (ts \div 60000) % 60
getHours(ts) == (ts \div 3600000) % 24
getDate(ts) == ((ts \div 86400000) % 31) + 1
getMonth(ts) == ((ts \div 86400000) \div 31) % 12
getFullYear(ts) == 1970 + ((ts \div 86400000) \div 365)

\* `${year}${month}${day}-${hours}${minutes}${seconds}`
formattedTimestamp(ts) ==
    String(getFullYear(ts))
      \o padStart(String(getMonth(ts) + 1), 2, "0")
      \o padStart(String(getDate(ts)), 2, "0")
      \o <<"-">>
      \o padStart(String(getHours(ts)), 2, "0")
      \o padStart(String(getMinutes(ts)), 2, "0")
      \o padStart(String(getSeconds(ts)), 2, "0")

\* Date.prototype.toLocaleString: a rendering to the second
toLocaleString(ts) ==
    String(getMonth(ts) + 1) \o <<"/">> \o String(getDate(ts)) \o <<"/">>
      \o String(getFullYear(ts)) \o <<", ">>
      \o String(getHours(ts)) \o <<":">>
      \o padStart(String(getMinutes(ts)), 2, "0") \o <<":">>
      \o padStart(String(getSeconds(ts)), 2, "0")

(***************************************************************************)
(* Paths (path.join, path.basename) and the project context (Config).       *)
(***************************************************************************)
ARCHIVE_METADATA_FILE == <<"archive-metadata.json">>
ARCHIVES_DIR_NAME == <<"archives">>

Sep == "/"

\* path.join(a, b)
join(a, b) == a \o <<Sep>> \o b

RECURSIVE basename(_)
\* path.basename(p): the lexemes after the last separator, trailing separators dropped
basename(p) ==
    IF p = <<>> THEN <<>>
    ELSE IF p[Len(p)] = Sep THEN basename(SubSeq(p, 1, Len(p) - 1))
    ELSE IF \E k \in 1..Len(p) : p[k] = Sep
         THEN LET last == CHOOSE k \in 1..Len(p) :
                              /\ p[k] = Sep
                              /\ \A m \in (k + 1)..Len(p) : p[m] # Sep
              IN  SubSeq(p, last + 1, Len(p))
         ELSE p

\* undefined, null and '' are all falsy; the model writes them as the empty string
undefined == <<>>

ProjectRootPath == <<Sep, "mock", Sep, "path", Sep, "test-project">>
ProjectTempDirPath == <<Sep, "home", Sep, ".gemini", Sep, "tmp", Sep, "h">>
TmpDirPath == <<Sep, "tmp">>

\* The project context an invocation runs in: services.config is there or not,
\* and its accessors yield a path or nothing.
Contexts == {"ok", "noRoot", "noTempDir", "noConfig"}

config(ctx) == ctx # "noConfig"
getProjectTempDir(ctx) == IF ctx = "noTempDir" THEN undefined ELSE ProjectTempDirPath
getProjectRoot(ctx) == IF ctx = "noRoot" THEN undefined ELSE ProjectRootPath

\* path.basename(config.getProjectRoot() || 'project')
projectName(ctx) ==
    basename(IF getProjectRoot(ctx) # undefined THEN getProjectRoot(ctx) ELSE <<"project">>)

\* `${projectName}-archive-${formattedTimestamp}.tar.gz`
archiveFileName(ctx, ts) ==
    projectName(ctx) \o <<"-archive-">> \o formattedTimestamp(ts) \o <<".tar.gz">>

(***************************************************************************)
(* Results of an invocation.                                                *)
(***************************************************************************)
NoResult == [type |-> "none", messageType |-> "none", content |-> <<>>, shown |-> <<>>]

\* { type: 'message', messageType, content }
Message(messageType, content) ==
    [type |-> "message", messageType |-> messageType, content |-> content, shown |-> <<>>]

\* the promise of the handler rejects: the error escapes to the caller
Rejected(error) ==
    [type |-> "rejected", messageType |-> "none", content |-> error, shown |-> <<>>]

\* the errors the filesystem and the codec raise
EACCES == <<"Error: EACCES: permission denied">>
ENOENT == <<"Error: ENOENT: no such file or directory">>
TarError == <<"Error: TAR_BAD_ARCHIVE">>

(***************************************************************************)
(* State.                                                                   *)
(***************************************************************************)
VARIABLES
    context,        \* the project context of the session, one of Contexts
    clock,          \* Date.now(), in milliseconds
    archivesDir,    \* filesystem: the archive directory exists
    metadataFile,   \* filesystem: the sidecar: <<>> when absent, else <<records>>
    archiveFiles,   \* filesystem: the files of the archive directory, name -> content
    projectRoot,    \* filesystem: the project root, top-level entry -> content
    tempDirs,       \* filesystem: the directories made by mkdtemp, id -> (entry -> content)
    uiItems,        \* ui.addItem: the event log of the interactive UI
    uiHistory,      \* ui.loadHistory: the values it was called with
    clientHistory,  \* getGeminiClient().setHistory: the values it was called with
    pc,             \* per invocation slot: the awaited operation that is pending
    inv,            \* per invocation slot: the command, its args and its context
    loc,            \* per invocation slot: the local variables of the handler
    result,         \* per invocation slot: what the invocation completed with
    pre,            \* per invocation slot: the filesystem when the invocation began
    started,        \* how many invocations have begun
    edits           \* how many times the user has changed the project tree

vars == <<context, clock, archivesDir, metadataFile, archiveFiles, projectRoot, tempDirs,
          uiItems, uiHistory, clientHistory, pc, inv, loc, result, pre, started, edits>>

uiVars == <<uiItems, uiHistory, clientHistory>>

fsVars == <<archivesDir, metadataFile, archiveFiles, projectRoot, tempDirs>>

\* the whole filesystem, as one value
Filesystem ==
    [archivesDir |-> archivesDir, metadataFile |-> metadataFile,
     archiveFiles |-> archiveFiles, projectRoot |-> projectRoot, tempDirs |-> tempDirs]

NoInvocation == [cmd |-> "none", args |-> <<>>, ctx |-> "ok", id |-> 0]

NoLocals ==
    [timestamp |-> 0, archiveFileName |-> <<>>, description |-> <<>>,
     existingMetadata |-> <<>>, selectedFile |-> <<>>, forceConfirm |-> FALSE,
     tempDir |-> 0, projectContents |-> {}, extractedContents |-> {},
     item |-> <<>>, removed |-> {}, extracted |-> <<>>, outcome |-> NoResult,
     archives |-> <<>>, caught |-> <<>>, cleanup |-> "none"]

EmptyTree == [e \in {} |-> 0]

NoSnapshot ==
    [archivesDir |-> FALSE, metadataFile |-> <<>>, archiveFiles |-> EmptyTree,
     projectRoot |-> EmptyTree, tempDirs |-> EmptyTree]

\* the project as the session finds it
InitialProject ==
    [e \in {<<".git">>, <<"node_modules">>, <<"archives">>, <<"src">>} |-> 0]

\* the entries the user creates, changes and removes between invocations
UserEntries == {<<"src">>, <<"notes">>}

Init ==
    /\ context \in Contexts
    /\ clock = 0
    /\ archivesDir = FALSE
    /\ metadataFile = <<>>
    /\ archiveFiles = EmptyTree
    /\ projectRoot = InitialProject
    /\ tempDirs = EmptyTree
    /\ uiItems = <<>>
    /\ uiHistory = <<>>
    /\ clientHistory = <<>>
    /\ pc = [p \in Procs |-> "idle"]
    /\ inv = [p \in Procs |-> NoInvocation]
    /\ loc = [p \in Procs |-> NoLocals]
    /\ result = [p \in Procs |-> NoResult]
    /\ pre = [p \in Procs |-> NoSnapshot]
    /\ started = 0
    /\ edits = 0

\* f with key k set to v, whether or not k was in its domain
Put(f, k, v) == [x \in DOMAIN f \cup {k} |-> IF x = k THEN v ELSE f[x]]

\* f without the keys in ks
Drop(f, ks) == [x \in DOMAIN f \ ks |-> f[x]]

(***************************************************************************)
(* The environment: the clock advances, the user edits the project.         *)
(***************************************************************************)
\* Date.now() is read by saveAction alone, right after its fs.mkdir (line 92):
\* the clock's advance is observable only then
Tick ==
    /\ \E p \in Procs : pc[p] = "save_mkdir"
    /\ \E t \in {clock + 1, ((clock \div 1000) + 1) * 1000} :
          /\ t <= MaxClock
          /\ t % 1000 <= MaxMs
          /\ clock' = t
    /\ UNCHANGED <<context, fsVars, uiVars, pc, inv, loc, result, pre, started, edits>>

\* no invocation is under way
Quiet == \A p \in Procs : pc[p] \in {"idle", "done"}

EditProject ==
    /\ Quiet
    /\ edits < MaxEdits
    /\ edits' = edits + 1
    /\ \E e \in UserEntries :
          \/ projectRoot' = Put(projectRoot, e, edits + 1)
          \/ e \in DOMAIN projectRoot /\ projectRoot' = Drop(projectRoot, {e})
    /\ UNCHANGED <<context, clock, archivesDir, metadataFile, archiveFiles, tempDirs,
                   uiVars, pc, inv, loc, result, pre, started>>

(***************************************************************************)
(* Invocation bookkeeping.                                                  *)
(***************************************************************************)
\* a slot is free when it runs nothing: it is unused, or its last invocation is over
Free(p) == pc[p] \in {"idle", "done"}

\* a new invocation takes the lowest free slot
FreeSlot(p) ==
    /\ Free(p)
    /\ \A q \in Procs : q < p => ~Free(q)
    /\ started < MaxInvocations

Begin(p, cmd, args, ctx) ==
    /\ inv' = [inv EXCEPT ![p] = [cmd |-> cmd, args |-> args, ctx |-> ctx, id |-> started + 1]]
    /\ pre' = [pre EXCEPT ![p] = Filesystem]
    /\ started' = started + 1

\* the handler returns (or its promise rejects) with r
Complete(p, r) ==
    /\ pc' = [pc EXCEPT ![p] = "done"]
    /\ result' = [result EXCEPT ![p] = r]

IOOutcomes == {"ok", "err"}

(***************************************************************************)
(* The Metadata Store and the exclusion filter of saveAction.               *)
(***************************************************************************)
\* a getArchivesDir that does not test the project temp directory
getArchivesDirUnchecked(ctx) == join(getProjectTempDir(ctx), ARCHIVES_DIR_NAME)

\* getArchivesDir: the path it returns; its fs.mkdir is a step of the caller
getArchivesDir(ctx) ==
    IF getProjectTempDir(ctx) = undefined
    THEN undefined
    ELSE join(getProjectTempDir(ctx), ARCHIVES_DIR_NAME)

\* a read that also reports a file of the archive directory that has no record
readArchiveMetadataAndDirectory ==
    LET stored == IF metadataFile = <<>> THEN <<>> ELSE metadataFile[1]
        unrecorded == {f \in DOMAIN archiveFiles :
                          \A k \in 1..Len(stored) : stored[k].filename # f}
    IN  IF unrecorded = {}
        THEN stored
        ELSE Append(stored, [filename |-> CHOOSE f \in unrecorded : TRUE,
                             timestamp |-> 0, description |-> <<>>])

\* readArchiveMetadata when fs.readFile does not fail for another reason than
\* ENOENT: the parsed list, [] when the sidecar is absent
readArchiveMetadata == IF metadataFile = <<>> THEN <<>> ELSE metadataFile[1]

\* a write that reads the sidecar again and appends the caller's last record
writeArchiveMetadataMerging(metadata) ==
    <<readArchiveMetadata \o <<metadata[Len(metadata)]>>>>

\* a write that puts the caller's last record first
writeArchiveMetadataNewestFirst(metadata) ==
    << <<metadata[Len(metadata)]>> \o SubSeq(metadata, 1, Len(metadata) - 1) >>

\* writeArchiveMetadata: the sidecar is replaced whole
writeArchiveMetadata(metadata) == <<metadata>>

defaultExcludes == {<<"node_modules">>, <<".git">>, ARCHIVES_DIR_NAME}

\* [...new Set([...defaultExcludes, ...previouslySavedArchives])]
allExcludes(existingMetadata) ==
    defaultExcludes \cup {existingMetadata[k].filename : k \in 1..Len(existingMetadata)}

normalizedFilePath(filePath) ==
    IF startsWith(filePath, <<"./">>) THEN SubSeq(filePath, 2, Len(filePath)) ELSE filePath

\* a filter that excludes the entries named in the set, and no other
filterByName(filePath, excludes) == normalizedFilePath(filePath) \notin excludes

\* the filter callback handed to tar.create
filter(filePath, excludes) ==
    ~ \E exclude \in excludes : startsWith(normalizedFilePath(filePath), exclude)

\* tar.create over ['.'] in cwd: the entries of the tree the filter lets through.
\* An excluded directory is not descended into, and no exclude holds a
\* separator, so deciding the top-level entries decides the archive.
tarCreate(tree, excludes) ==
    [e \in {x \in DOMAIN tree : filter(<<"./">> \o x, excludes)} |-> tree[e]]

\* the record saveAction appends
newMetadata(l) ==
    [filename |-> l.archiveFileName, timestamp |-> l.timestamp, description |-> l.description]

\* an addItem that drops the timestamp it is given
addItemUnstamped(text, timestamp) ==
    Append(uiItems, [type |-> "info", text |-> text, timestamp |-> 0])

\* addItem({ type: 'info', text }, timestamp)
addItem(text, timestamp) ==
    Append(uiItems, [type |-> "info", text |-> text, timestamp |-> timestamp])

(***************************************************************************)
(* saveAction.                                                              *)
(***************************************************************************)
SaveArgs == {<<>>, <<" ", "\t">>, <<" ", "my", " ", "backup", "\n">>}

\* lines 67-90: the config check, then getArchivesDir up to its fs.mkdir
SaveStart(p, args, ctx) ==
    /\ FreeSlot(p)
    /\ Begin(p, "save", args, ctx)
    /\ loc' = [loc EXCEPT ![p] = NoLocals]
    /\ IF ~config(ctx)
       THEN Complete(p, Message("error", <<"Configuration not available.">>))
       ELSE IF getArchivesDir(ctx) = undefined
       THEN Complete(p, Message("error", <<"Could not determine the .gemini directory path.">>))
       ELSE /\ pc' = [pc EXCEPT ![p] = "save_mkdir"]
            /\ UNCHANGED result
    /\ UNCHANGED <<context, clock, fsVars, uiVars, edits>>

\* fs.mkdir of getArchivesDir settles; lines 92-125: the timestamp, the
\* filename, the description, the progress item, up to fs.readFile
SaveMkdir(p, io) ==
    /\ pc[p] = "save_mkdir"
    /\ IF io = "err"
       THEN /\ Complete(p, Rejected(EACCES))
            /\ UNCHANGED <<archivesDir, loc, uiItems>>
       ELSE LET name == archiveFileName(inv[p].ctx, clock)
                archivePath == join(getArchivesDir(inv[p].ctx), name)
            IN  /\ archivesDir' = TRUE
                /\ loc' = [loc EXCEPT ![p].timestamp = clock,
                                      ![p].archiveFileName = name,
                                      ![p].description = trim(inv[p].args)]
                /\ uiItems' = addItem(<<"Creating archive: ">> \o archivePath, clock)
                /\ pc' = [pc EXCEPT ![p] = "save_readFile"]
                /\ UNCHANGED result
    /\ UNCHANGED <<context, clock, metadataFile, archiveFiles, projectRoot, tempDirs,
                   uiHistory, clientHistory, inv, pre, started, edits>>

\* a catch that reports what it caught as information
SaveCaughtAsInfo(p, error) ==
    Complete(p, Message("info", <<"An unexpected error occurred: ">> \o error))

\* the catch of saveAction, lines 174-180
SaveCaught(p, error) ==
    Complete(p, Message("error", <<"An unexpected error occurred: ">> \o error))

\* fs.readFile of readArchiveMetadata settles; lines 126-132 up to tar.create
SaveReadFile(p, io) ==
    /\ pc[p] = "save_readFile"
    /\ IF io = "err"
       THEN /\ SaveCaught(p, EACCES)
            /\ UNCHANGED loc
       ELSE /\ loc' = [loc EXCEPT ![p].existingMetadata = readArchiveMetadata]
            /\ pc' = [pc EXCEPT ![p] = "save_tarCreate"]
            /\ UNCHANGED result
    /\ UNCHANGED <<context, clock, fsVars, uiVars, inv, pre, started, edits>>

\* tar.create settles; lines 150-157: the new record is pushed, up to fs.writeFile.
\* A failed tar.create may leave a truncated archive file behind.
SaveTarCreate(p, io, partial) ==
    /\ pc[p] = "save_tarCreate"
    /\ IF io = "err"
       THEN /\ SaveCaught(p, TarError)
            /\ archiveFiles' =
                  IF partial
                  THEN Put(archiveFiles, loc[p].archiveFileName,
                           [format |-> "truncated", entries |-> EmptyTree])
                  ELSE archiveFiles
            /\ UNCHANGED loc
       ELSE /\ ~partial
            /\ archiveFiles' =
                  Put(archiveFiles, loc[p].archiveFileName,
                      [format |-> "tar.gz",
                       entries |-> tarCreate(projectRoot, allExcludes(loc[p].existingMetadata))])
            /\ loc' = [loc EXCEPT ![p].existingMetadata =
                                      Append(loc[p].existingMetadata, newMetadata(loc[p]))]
            /\ pc' = [pc EXCEPT ![p] = "save_writeFile"]
            /\ UNCHANGED result
    /\ UNCHANGED <<context, clock, archivesDir, metadataFile, projectRoot, tempDirs,
                   uiVars, inv, pre, started, edits>>

\* fs.writeFile of writeArchiveMetadata settles; lines 159-173
SaveWriteFile(p, io) ==
    /\ pc[p] = "save_writeFile"
    /\ IF io = "err"
       THEN /\ SaveCaught(p, EACCES)
            /\ UNCHANGED <<metadataFile, uiItems>>
       ELSE LET archivePath == join(getArchivesDir(inv[p].ctx), loc[p].archiveFileName)
                description == loc[p].description
            IN  /\ metadataFile' = writeArchiveMetadata(loc[p].existingMetadata)
                /\ uiItems' = addItem(<<"Archive created successfully: ">> \o archivePath,
                                      loc[p].timestamp)
                /\ Complete(p, Message("info",
                      <<"Archive created at: ">> \o archivePath
                        \o (IF description # <<>>
                            THEN <<" with description: \"">> \o description \o <<"\"">>
                            ELSE <<>>)))
    /\ UNCHANGED <<context, clock, archivesDir, archiveFiles, projectRoot, tempDirs,
                   uiHistory, clientHistory, inv, loc, pre, started, edits>>

(***************************************************************************)
(* loadAction: the arguments, list mode.                                    *)
(***************************************************************************)
RECURSIVE split(_)
\* args.split(' ')
split(s) ==
    IF \E k \in 1..Len(s) : s[k] = " "
    THEN LET first == CHOOSE k \in 1..Len(s) :
                          /\ s[k] = " "
                          /\ \A m \in 1..(k - 1) : s[m] # " "
         IN  <<SubSeq(s, 1, first - 1)>> \o split(SubSeq(s, first + 1, Len(s)))
    ELSE <<s>>

NonEmpty(t) == t # <<>>

\* args.split(' ').filter(Boolean)
parts(args) == SelectSeq(split(args), NonEmpty)

\* parts.includes('--force')
forceConfirm(args) == \E k \in 1..Len(parts(args)) : parts(args)[k] = <<"--", "force">>

\* parts[0] || '', and '' when that is a flag
selectedFile(args) ==
    LET first == IF parts(args) # <<>> THEN parts(args)[1] ELSE <<>>
    IN  IF startsWith(first, <<"--">>) THEN <<>> ELSE first

\* no filter on the project
IsAnyProject(archive, ctx) == TRUE

IsCurrentProject(archive, ctx) ==
    startsWith(archive.filename, projectName(ctx) \o <<"-archive-">>)

RECURSIVE filteredArchives(_, _)
\* archives.filter((archive) => archive.filename.startsWith(`${projectName}-archive-`))
filteredArchives(archives, ctx) ==
    IF archives = <<>> THEN <<>>
    ELSE (IF IsCurrentProject(Head(archives), ctx) THEN <<Head(archives)>> ELSE <<>>)
           \o filteredArchives(Tail(archives), ctx)

\* the comparator with its operands swapped: oldest first
compareAscending(a, b) == a.timestamp - b.timestamp

\* the comparator (a, b) => b.timestamp - a.timestamp
compare(a, b) == b.timestamp - a.timestamp

RECURSIVE insert(_, _)
\* a into the sorted list, after every element the comparator does not put after it
insert(a, sorted) ==
    IF sorted = <<>> THEN <<a>>
    ELSE IF compare(Head(sorted), a) <= 0
         THEN <<Head(sorted)>> \o insert(a, Tail(sorted))
         ELSE <<a>> \o sorted

RECURSIVE sort(_)
\* Array.prototype.sort with the comparator: stable
sort(archives) ==
    IF archives = <<>> THEN <<>>
    ELSE insert(archives[Len(archives)], sort(SubSeq(archives, 1, Len(archives) - 1)))

\* one line of the list, lines 116-118
line(archive) ==
    <<"- ">> \o archive.filename \o <<" (Created: ">> \o toLocaleString(archive.timestamp)
      \o <<")">>
      \o (IF archive.description # <<>> THEN <<" - ">> \o archive.description ELSE <<>>)
      \o <<"\n">>

RECURSIVE lines(_)
lines(archives) ==
    IF archives = <<>> THEN <<>> ELSE line(Head(archives)) \o lines(Tail(archives))

\* list mode testing the list it read, not the filtered one, for emptiness
listArchivesUnfiltered(archives, ctx) ==
    LET filtered == filteredArchives(archives, ctx)
    IN  IF Len(archives) = 0
        THEN Message("info", <<"No saved archives found for the current project.">>)
        ELSE [Message("info",
                      <<"Available archives for the current project:\n\n">>
                        \o lines(sort(filtered)))
                EXCEPT !.shown = sort(filtered)]

\* lines 98-125: what list mode returns for the list read from the sidecar
listArchives(archives, ctx) ==
    LET filtered == filteredArchives(archives, ctx)
    IN  IF Len(filtered) = 0
        THEN Message("info", <<"No saved archives found for the current project.">>)
        ELSE [Message("info",
                      <<"Available archives for the current project:\n\n">>
                        \o lines(sort(filtered)))
                EXCEPT !.shown = sort(filtered)]

\* suggestions that show the description where the filename belongs
candidatesByDescription(archives) ==
    [k \in 1..Len(archives) |->
        [label |-> archives[k].description, value |-> archives[k].filename,
         description |-> archives[k].description]]

RECURSIVE candidates(_)
\* lines 264-268: label, value and description of each archive
candidates(archives) ==
    IF archives = <<>> THEN <<>>
    ELSE <<[label |-> Head(archives).filename, value |-> Head(archives).filename,
            description |-> Head(archives).description]>>
           \o candidates(Tail(archives))

\* what completion resolves to
Candidates(list, shown) ==
    [type |-> "candidates", messageType |-> "none", content |-> list, shown |-> shown]

\* lines 258-268: what completion returns for the list read from the sidecar
suggest(archives, ctx) ==
    LET sorted == sort(filteredArchives(archives, ctx))
    IN  Candidates(candidates(sorted), sorted)

(***************************************************************************)
(* loadAction.                                                              *)
(***************************************************************************)
\* a keep-list without the version-control directory
filesToKeepNoGit == {<<"node_modules">>, ARCHIVES_DIR_NAME}

\* a keep-list that also spares the sources
filesToKeepSrc == {<<".git">>, <<"node_modules">>, ARCHIVES_DIR_NAME, <<"src">>}

filesToKeep == {<<".git">>, <<"node_modules">>, ARCHIVES_DIR_NAME}

MissingArchive == <<"missing", ".tar.gz">>
LegacyFile == <<"history", ".json">>

\* the filenames a user may name: the files of the archive directory, an
\* archive that is not there, a legacy history file
FileNames == DOMAIN archiveFiles \cup {MissingArchive, LegacyFile}

LoadArgs ==
    {<<>>}
      \cup FileNames
      \cup {f \o <<" ", "--", "force">> : f \in FileNames}
      \cup {<<"--", "force", " ">> \o f : f \in FileNames}

\* an outer catch whose message leaves the file out
LoadCaughtUnnamed(p, error) == Message("error", <<"Error loading archive: ">> \o error)

\* the outer catch of restore mode, lines 232-238
LoadCaught(p, error) ==
    Message("error", <<"Error loading archive ">> \o loc[p].selectedFile \o <<": ">> \o error)

\* lines 61-83: the config check, then getArchivesDir up to its fs.mkdir
LoadStart(p, args, ctx) ==
    /\ FreeSlot(p)
    /\ args \in LoadArgs
    /\ Begin(p, "load", args, ctx)
    /\ loc' = [loc EXCEPT ![p] = NoLocals]
    /\ IF ~config(ctx)
       THEN Complete(p, Message("error", <<"Configuration not available.">>))
       ELSE IF getArchivesDir(ctx) = undefined
       THEN Complete(p, Message("error", <<"Could not determine the .gemini directory path.">>))
       ELSE /\ pc' = [pc EXCEPT ![p] = "load_mkdir"]
            /\ UNCHANGED result
    /\ UNCHANGED <<context, clock, fsVars, uiVars, edits>>

\* fs.mkdir of getArchivesDir settles; lines 85-163: the arguments are parsed
\* and the mode is chosen, up to the first await of that mode
LoadMkdir(p, io) ==
    /\ pc[p] = "load_mkdir"
    /\ IF io = "err"
       THEN /\ Complete(p, Rejected(EACCES))
            /\ UNCHANGED <<archivesDir, loc>>
       ELSE LET file == selectedFile(inv[p].args)
                force == forceConfirm(inv[p].args)
                root == getProjectRoot(inv[p].ctx)
            IN  /\ archivesDir' = TRUE
                /\ loc' = [loc EXCEPT ![p].selectedFile = file, ![p].forceConfirm = force]
                /\ IF file = <<>>
                   THEN /\ pc' = [pc EXCEPT ![p] = "load_readFile"]
                        /\ UNCHANGED result
                   ELSE IF ~endsWith(file, <<".tar.gz">>)
                   THEN /\ pc' = [pc EXCEPT ![p] = "load_readJson"]
                        /\ UNCHANGED result
                   ELSE IF root = undefined
                   THEN Complete(p, Message("error",
                                   <<"Could not determine the project root path.">>))
                   ELSE IF ~force
                   THEN Complete(p, Message("error",
                          <<"Loading '">> \o file
                            \o <<"' will overwrite the contents of your current project directory (">>
                            \o root
                            \o <<"). This is a destructive operation. To proceed, please run the command again with the '--force' flag (e.g., ">>
                            \o <<"/load ">> \o file \o <<" --force">> \o <<").">>))
                   ELSE /\ pc' = [pc EXCEPT ![p] = "load_mkdtemp"]
                        /\ UNCHANGED result
    /\ UNCHANGED <<context, clock, metadataFile, archiveFiles, projectRoot, tempDirs,
                   uiVars, inv, pre, started, edits>>

\* a list mode that writes the list it read back to the sidecar
LoadReadFileRewriting(p, io) ==
    /\ pc[p] = "load_readFile"
    /\ IF io = "err"
       THEN /\ loc' = [loc EXCEPT ![p].caught = EACCES]
            /\ Complete(p, Message("error", <<"Error loading archives: ">> \o EACCES))
            /\ UNCHANGED metadataFile
       ELSE /\ loc' = [loc EXCEPT ![p].archives = readArchiveMetadata]
            /\ metadataFile' = writeArchiveMetadata(readArchiveMetadata)
            /\ Complete(p, listArchives(readArchiveMetadata, inv[p].ctx))
    /\ UNCHANGED <<context, clock, archivesDir, archiveFiles, projectRoot, tempDirs,
                   uiVars, inv, pre, started, edits>>

\* a list mode that takes every failed read for an absent sidecar
LoadReadFileLenient(p, io) ==
    /\ pc[p] = "load_readFile"
    /\ IF io = "err"
       THEN /\ loc' = [loc EXCEPT ![p].caught = EACCES]
            /\ Complete(p, listArchives(<<>>, inv[p].ctx))
       ELSE /\ loc' = [loc EXCEPT ![p].archives = readArchiveMetadata]
            /\ Complete(p, listArchives(readArchiveMetadata, inv[p].ctx))
    /\ UNCHANGED <<context, clock, fsVars, uiVars, inv, pre, started, edits>>

\* list mode: fs.readFile of readArchiveMetadata settles; lines 98-132
LoadReadFile(p, io) ==
    /\ pc[p] = "load_readFile"
    /\ IF io = "err"
       THEN /\ loc' = [loc EXCEPT ![p].caught = EACCES]
            /\ Complete(p, Message("error", <<"Error loading archives: ">> \o EACCES))
       ELSE /\ loc' = [loc EXCEPT ![p].archives = readArchiveMetadata]
            /\ Complete(p, listArchives(readArchiveMetadata, inv[p].ctx))
    /\ UNCHANGED <<context, clock, fsVars, uiVars, inv, pre, started, edits>>

\* The values of a legacy history file: a field is missing (undefined), null,
\* or an array of turns.
JsonUndefined == [kind |-> "undefined", items |-> <<>>]
JsonNull == [kind |-> "null", items |-> <<>>]
JsonArray(items) == [kind |-> "array", items |-> items]

\* a test that takes null for a value
isDefined(v) == v.kind # "undefined"

\* the test of `if (toolCallData.history)`: undefined and null are falsy, an
\* array is truthy, the empty one too
truthy(v) == v.kind \notin {"undefined", "null"}

\* the UI context: a history sink that is taken to be there in every mode
loadHistoryAssumed(ctx) == TRUE

\* ui.loadHistory is defined in the interactive UI modes
loadHistory(ctx) == ctx # "noLoadHistory"

\* config.getGeminiClient() yields a chat client
getGeminiClient(ctx) == ctx # "noClient"

Loaded(file) == Message("info", <<"Archive '">> \o file \o <<"' loaded successfully.">>)

\* the legacy branch: fs.readFile of the selected file settles; lines 205-231,
\* up to the await of setHistory
LoadReadJson(p, io) ==
    /\ pc[p] = "load_readJson"
    /\ LET file == loc[p].selectedFile
           fail(error) ==
              /\ loc' = [loc EXCEPT ![p].caught = error]
              /\ Complete(p, LoadCaught(p, error))
              /\ UNCHANGED <<uiHistory, clientHistory>>
       IN  IF io = "err"
           THEN fail(EACCES)
           ELSE IF file \notin DOMAIN archiveFiles
           THEN fail(ENOENT)
           ELSE IF archiveFiles[file].format # "json"
           THEN fail(<<"SyntaxError: Unexpected token">>)
           ELSE LET toolCallData == archiveFiles[file].entries
                IN  IF truthy(toolCallData.history) /\ ~loadHistory(inv[p].ctx)
                    THEN /\ Complete(p, Message("error",
                                        <<"loadHistory function is not available.">>))
                         /\ UNCHANGED <<uiHistory, clientHistory, loc>>
                    ELSE /\ uiHistory' =
                               IF truthy(toolCallData.history)
                               THEN Append(uiHistory, toolCallData.history)
                               ELSE uiHistory
                         /\ IF truthy(toolCallData.clientHistory) /\ getGeminiClient(inv[p].ctx)
                            THEN /\ clientHistory' =
                                       Append(clientHistory, toolCallData.clientHistory)
                                 /\ pc' = [pc EXCEPT ![p] = "load_setHistory"]
                                 /\ UNCHANGED result
                            ELSE /\ Complete(p, Loaded(file))
                                 /\ UNCHANGED clientHistory
                         /\ UNCHANGED loc
    /\ UNCHANGED <<context, clock, fsVars, uiItems, inv, pre, started, edits>>

\* the promise of setHistory settles, line 223; lines 226-230
LoadSetHistory(p, io) ==
    /\ pc[p] = "load_setHistory"
    /\ IF io = "err"
       THEN /\ loc' = [loc EXCEPT ![p].caught = <<"Error: setHistory failed">>]
            /\ Complete(p, LoadCaught(p, <<"Error: setHistory failed">>))
       ELSE /\ Complete(p, Loaded(loc[p].selectedFile))
            /\ UNCHANGED loc
    /\ UNCHANGED <<context, clock, fsVars, uiVars, inv, pre, started, edits>>

\* a cleanup that is skipped when an error is being thrown: no finally
FinallyOnReturnOnly(p, l, r) ==
    IF r.type = "rejected"
    THEN /\ loc' = [loc EXCEPT ![p] = l]
         /\ pc' = [pc EXCEPT ![p] = "done"]
         /\ result' = [result EXCEPT ![p] =
               Message("error", <<"Error loading archive ">> \o l.selectedFile
                                  \o <<": ">> \o r.content)]
    ELSE /\ loc' = [loc EXCEPT ![p] = [l EXCEPT !.outcome = r]]
         /\ pc' = [pc EXCEPT ![p] = "load_cleanup"]
         /\ UNCHANGED result

\* the finally of the restore, line 201, is entered from locals l with the
\* pending outcome r (the return value, or the error being thrown)
Finally(p, l, r) ==
    /\ loc' = [loc EXCEPT ![p] = [l EXCEPT !.outcome = r]]
    /\ pc' = [pc EXCEPT ![p] = "load_cleanup"]
    /\ UNCHANGED result

\* an error thrown inside the try of the restore
Thrown(error) == Rejected(error)

Extracted(p) ==
    Message("info", <<"Archive '">> \o loc[p].selectedFile
                      \o <<"' loaded and extracted successfully to ">>
                      \o getProjectRoot(inv[p].ctx) \o <<".">>)

\* a restore that wipes the project root before it extracts the archive
LoadMkdtempThenWipe(p, io) ==
    /\ pc[p] = "load_mkdtemp"
    /\ IF io = "err"
       THEN /\ Complete(p, LoadCaught(p, EACCES))
            /\ UNCHANGED <<tempDirs, loc>>
       ELSE /\ tempDirs' = Put(tempDirs, inv[p].id, EmptyTree)
            /\ loc' = [loc EXCEPT ![p].tempDir = inv[p].id]
            /\ pc' = [pc EXCEPT ![p] = "load_readdirRoot"]
            /\ UNCHANGED result
    /\ UNCHANGED <<context, clock, archivesDir, metadataFile, archiveFiles, projectRoot,
                   uiVars, inv, pre, started, edits>>

\* fs.mkdtemp settles; lines 165-170 up to tar.extract
LoadMkdtemp(p, io) ==
    /\ pc[p] = "load_mkdtemp"
    /\ IF io = "err"
       THEN /\ Complete(p, LoadCaught(p, EACCES))
            /\ UNCHANGED <<tempDirs, loc>>
       ELSE /\ tempDirs' = Put(tempDirs, inv[p].id, EmptyTree)
            /\ loc' = [loc EXCEPT ![p].tempDir = inv[p].id]
            /\ pc' = [pc EXCEPT ![p] = "load_extract"]
            /\ UNCHANGED result
    /\ UNCHANGED <<context, clock, archivesDir, metadataFile, archiveFiles, projectRoot,
                   uiVars, inv, pre, started, edits>>

\* tar.extract settles; lines 172-174 up to fs.readdir(projectRoot).
\* It fails when the file is not there or is no gzip-compressed tar.
LoadExtract(p, io) ==
    /\ pc[p] = "load_extract"
    /\ LET file == loc[p].selectedFile
       IN  IF io = "err"
           THEN /\ Finally(p, loc[p], Thrown(TarError))
                /\ UNCHANGED tempDirs
           ELSE IF file \notin DOMAIN archiveFiles
           THEN /\ Finally(p, loc[p], Thrown(ENOENT))
                /\ UNCHANGED tempDirs
           ELSE IF archiveFiles[file].format # "tar.gz"
           THEN /\ Finally(p, loc[p], Thrown(TarError))
                /\ UNCHANGED tempDirs
           ELSE /\ tempDirs' = Put(tempDirs, loc[p].tempDir, archiveFiles[file].entries)
                /\ loc' = [loc EXCEPT ![p].extracted = <<archiveFiles[file].entries>>]
                /\ pc' = [pc EXCEPT ![p] = "load_readdirRoot"]
                /\ UNCHANGED result
    /\ UNCHANGED <<context, clock, archivesDir, metadataFile, archiveFiles, projectRoot,
                   uiVars, inv, pre, started, edits>>

\* the move phase begins, lines 186-198: fs.readdir(tempDir) is awaited
ToMove(p, l) ==
    /\ loc' = [loc EXCEPT ![p] = l]
    /\ pc' = [pc EXCEPT ![p] = "load_readdirTemp"]
    /\ UNCHANGED result

\* the wipe loop, lines 176-183, goes on from locals l: entries of filesToKeep
\* are passed over, fs.rm of the next other entry is awaited; fs.readdir gives
\* no order, so next is any entry left
Wipe(p, l, next) ==
    LET todo == l.projectContents \ filesToKeep
    IN  IF todo = {}
        THEN /\ next = <<>>
             /\ ToMove(p, [l EXCEPT !.projectContents = {}])
        ELSE /\ next \in todo
             /\ loc' = [loc EXCEPT ![p] =
                          [l EXCEPT !.item = next, !.projectContents = todo \ {next}]]
             /\ pc' = [pc EXCEPT ![p] = "load_rm"]
             /\ UNCHANGED result

EntryNames == DOMAIN projectRoot \cup UNION {DOMAIN tempDirs[t] : t \in DOMAIN tempDirs}

\* fs.readdir(projectRoot) settles
LoadReaddirRoot(p, io, next) ==
    /\ pc[p] = "load_readdirRoot"
    /\ IF io = "err"
       THEN /\ next = <<>>
            /\ Finally(p, loc[p], Thrown(EACCES))
       ELSE Wipe(p, [loc[p] EXCEPT !.projectContents = DOMAIN projectRoot], next)
    /\ UNCHANGED <<context, clock, fsVars, uiVars, inv, pre, started, edits>>

\* fs.rm of a project entry settles
LoadRm(p, io, next) ==
    /\ pc[p] = "load_rm"
    /\ IF io = "err"
       THEN /\ next = <<>>
            /\ Finally(p, loc[p], Thrown(EACCES))
            /\ UNCHANGED projectRoot
       ELSE /\ projectRoot' = Drop(projectRoot, {loc[p].item})
            /\ Wipe(p, [loc[p] EXCEPT !.removed = @ \cup {loc[p].item}], next)
    /\ UNCHANGED <<context, clock, archivesDir, metadataFile, archiveFiles, tempDirs,
                   uiVars, inv, pre, started, edits>>

\* the move loop, lines 187-198, goes on from locals l: fs.cp of the next
\* extracted entry is awaited, or the handler returns
Move(p, l, next) ==
    IF l.extractedContents = {}
    THEN /\ next = <<>>
         /\ Finally(p, l, Extracted(p))
    ELSE /\ next \in l.extractedContents
         /\ loc' = [loc EXCEPT ![p] =
                      [l EXCEPT !.item = next,
                                !.extractedContents = l.extractedContents \ {next}]]
         /\ pc' = [pc EXCEPT ![p] = "load_cp"]
         /\ UNCHANGED result

\* fs.readdir(tempDir) settles
LoadReaddirTemp(p, io, next) ==
    /\ pc[p] = "load_readdirTemp"
    /\ IF io = "err" \/ loc[p].tempDir \notin DOMAIN tempDirs
       THEN /\ next = <<>>
            /\ Finally(p, loc[p], Thrown(EACCES))
       ELSE Move(p, [loc[p] EXCEPT !.extractedContents = DOMAIN tempDirs[loc[p].tempDir]], next)
    /\ UNCHANGED <<context, clock, fsVars, uiVars, inv, pre, started, edits>>

\* fs.cp(sourcePath, destinationPath, { recursive: true }) settles; fs.rm of
\* the source is awaited
LoadCp(p, io) ==
    /\ pc[p] = "load_cp"
    /\ IF io = "err"
       THEN /\ Finally(p, loc[p], Thrown(EACCES))
            /\ UNCHANGED projectRoot
       ELSE /\ projectRoot' = Put(projectRoot, loc[p].item, tempDirs[loc[p].tempDir][loc[p].item])
            /\ pc' = [pc EXCEPT ![p] = "load_rmSource"]
            /\ UNCHANGED <<loc, result>>
    /\ UNCHANGED <<context, clock, archivesDir, metadataFile, archiveFiles, tempDirs,
                   uiVars, inv, pre, started, edits>>

\* fs.rm of the copied source settles
LoadRmSource(p, io, next) ==
    /\ pc[p] = "load_rmSource"
    /\ IF io = "err"
       THEN /\ next = <<>>
            /\ Finally(p, loc[p], Thrown(EACCES))
            /\ UNCHANGED tempDirs
       ELSE /\ tempDirs' = [tempDirs EXCEPT ![loc[p].tempDir] = Drop(@, {loc[p].item})]
            /\ Move(p, loc[p], next)
    /\ UNCHANGED <<context, clock, archivesDir, metadataFile, archiveFiles, projectRoot,
                   uiVars, inv, pre, started, edits>>

\* the fs.rm of the finally settles, line 201: the pending outcome stands,
\* or the error of the rm replaces it; a thrown error reaches the outer catch
LoadCleanup(p, io) ==
    /\ pc[p] = "load_cleanup"
    /\ IF io = "err"
       THEN /\ Complete(p, LoadCaught(p, EACCES))
            /\ loc' = [loc EXCEPT ![p].cleanup = "failed"]
            /\ UNCHANGED tempDirs
       ELSE /\ tempDirs' = Drop(tempDirs, {loc[p].tempDir})
            /\ loc' = [loc EXCEPT ![p].cleanup = "removed"]
            /\ Complete(p, IF loc[p].outcome.type = "rejected"
                           THEN LoadCaught(p, loc[p].outcome.content)
                           ELSE loc[p].outcome)
    /\ UNCHANGED <<context, clock, archivesDir, metadataFile, archiveFiles, projectRoot,
                   uiVars, inv, pre, started, edits>>

(***************************************************************************)
(* completion of loadCommand.                                               *)
(***************************************************************************)
\* lines 241-255: the config check, then getArchivesDir up to its fs.mkdir
CompletionStart(p, ctx) ==
    /\ FreeSlot(p)
    /\ Begin(p, "completion", <<>>, ctx)
    /\ loc' = [loc EXCEPT ![p] = NoLocals]
    /\ IF ~config(ctx) \/ getArchivesDir(ctx) = undefined
       THEN Complete(p, Candidates(<<>>, <<>>))
       ELSE /\ pc' = [pc EXCEPT ![p] = "completion_mkdir"]
            /\ UNCHANGED result
    /\ UNCHANGED <<context, clock, fsVars, uiVars, edits>>

\* fs.mkdir of getArchivesDir settles, up to fs.readFile of readArchiveMetadata
CompletionMkdir(p, io) ==
    /\ pc[p] = "completion_mkdir"
    /\ IF io = "err"
       THEN /\ Complete(p, Rejected(EACCES))
            /\ UNCHANGED archivesDir
       ELSE /\ archivesDir' = TRUE
            /\ pc' = [pc EXCEPT ![p] = "completion_readFile"]
            /\ UNCHANGED result
    /\ UNCHANGED <<context, clock, metadataFile, archiveFiles, projectRoot, tempDirs,
                   uiVars, inv, loc, pre, started, edits>>

\* fs.readFile settles; lines 257-271
CompletionReadFile(p, io) ==
    /\ pc[p] = "completion_readFile"
    /\ IF io = "err"
       THEN /\ loc' = [loc EXCEPT ![p].caught = EACCES]
            /\ Complete(p, Candidates(<<>>, <<>>))
       ELSE /\ loc' = [loc EXCEPT ![p].archives = readArchiveMetadata]
            /\ Complete(p, suggest(readArchiveMetadata, inv[p].ctx))
    /\ UNCHANGED <<context, clock, fsVars, uiVars, inv, pre, started, edits>>

(***************************************************************************)
(* The specifications.                                                      *)
(***************************************************************************)
Step ==
    \/ \E p \in Procs, io \in IOOutcomes : SaveMkdir(p, io)
    \/ \E p \in Procs, io \in IOOutcomes : SaveReadFile(p, io)
    \/ \E p \in Procs, io \in IOOutcomes, partial \in BOOLEAN : SaveTarCreate(p, io, partial)
    \/ \E p \in Procs, io \in IOOutcomes : SaveWriteFile(p, io)
    \/ \E p \in Procs, io \in IOOutcomes : LoadMkdir(p, io)
    \/ \E p \in Procs, io \in IOOutcomes : LoadReadFile(p, io)
    \/ \E p \in Procs, io \in IOOutcomes : LoadReadJson(p, io)
    \/ \E p \in Procs, io \in IOOutcomes : LoadMkdtemp(p, io)
    \/ \E p \in Procs, io \in IOOutcomes : LoadExtract(p, io)
    \/ \E p \in Procs, io \in IOOutcomes, next \in EntryNames \cup {<<>>} :
          LoadReaddirRoot(p, io, next)
    \/ \E p \in Procs, io \in IOOutcomes, next \in EntryNames \cup {<<>>} :
          LoadRm(p, io, next)
    \/ \E p \in Procs, io \in IOOutcomes, next \in EntryNames \cup {<<>>} :
          LoadReaddirTemp(p, io, next)
    \/ \E p \in Procs, io \in IOOutcomes : LoadCp(p, io)
    \/ \E p \in Procs, io \in IOOutcomes, next \in EntryNames \cup {<<>>} :
          LoadRmSource(p, io, next)
    \/ \E p \in Procs, io \in IOOutcomes : LoadCleanup(p, io)
    \/ \E p \in Procs, io \in IOOutcomes : CompletionMkdir(p, io)
    \/ \E p \in Procs, io \in IOOutcomes : CompletionReadFile(p, io)
    \/ Tick
    \/ EditProject

Start ==
    \/ \E p \in Procs, args \in SaveArgs : SaveStart(p, args, context)
    \/ \E p \in Procs, args \in LoadArgs : LoadStart(p, args, context)
    \/ \E p \in Procs : CompletionStart(p, context)

\* one interactive session: a command is invoked when the one before is over
Next == (Quiet /\ Start) \/ Step

Spec == Init /\ [][Next]_vars

\* invocations may overlap
NextConcurrent == Start \/ Step

SpecConcurrent == Init /\ [][NextConcurrent]_vars

(***************************************************************************)
(* The Metadata Store as list mode and completion may find it: any list of  *)
(* up to MaxStore records of this project and of another one, in any order, *)
(* or no sidecar at all.  One list-mode load or one completion then runs.   *)
(***************************************************************************)
MaxStore == 3

StoreTimestamps == {0, 1, 1000}

StoreRecords ==
    {[filename |-> archiveFileName(ctx, ts), timestamp |-> ts, description |-> d] :
        ctx \in {"ok", "noRoot"}, ts \in StoreTimestamps, d \in {<<>>, <<"d">>}}

Stores == UNION {[1..n -> StoreRecords] : n \in 0..MaxStore}

InitList ==
    /\ context \in Contexts
    /\ clock = 0
    /\ archivesDir \in BOOLEAN
    /\ metadataFile \in {<<>>} \cup {<<store>> : store \in Stores}
    /\ archiveFiles = EmptyTree
    /\ projectRoot = InitialProject
    /\ tempDirs = EmptyTree
    /\ uiItems = <<>>
    /\ uiHistory = <<>>
    /\ clientHistory = <<>>
    /\ pc = [p \in Procs |-> "idle"]
    /\ inv = [p \in Procs |-> NoInvocation]
    /\ loc = [p \in Procs |-> NoLocals]
    /\ result = [p \in Procs |-> NoResult]
    /\ pre = [p \in Procs |-> NoSnapshot]
    /\ started = 0
    /\ edits = 0

NextList ==
    \/ started = 0 /\ \E p \in Procs : LoadStart(p, <<>>, context)
    \/ started = 0 /\ \E p \in Procs : CompletionStart(p, context)
    \/ \E p \in Procs, io \in IOOutcomes : LoadMkdir(p, io)
    \/ \E p \in Procs, io \in IOOutcomes : LoadReadFile(p, io)
    \/ \E p \in Procs, io \in IOOutcomes : CompletionMkdir(p, io)
    \/ \E p \in Procs, io \in IOOutcomes : CompletionReadFile(p, io)

SpecList == InitList /\ [][NextList]_vars

(***************************************************************************)
(* Legacy history files: the archive directory holds one file that is not a *)
(* .tar.gz archive, with any of the contents below, and the UI and the      *)
(* configuration have their sinks or lack one.  Loads of that file run one  *)
(* after the other.                                                         *)
(***************************************************************************)
LegacyContexts == {"ok", "noLoadHistory", "noClient"}

JsonValues == {JsonUndefined, JsonNull, JsonArray(<<>>), JsonArray(<<"turn">>)}

ToolCallData == [history : JsonValues, clientHistory : JsonValues]

LegacyContents ==
    {[format |-> "json", entries |-> d] : d \in ToolCallData}
      \cup {[format |-> "text", entries |-> [history |-> JsonUndefined,
                                             clientHistory |-> JsonUndefined]]}

InitLegacy ==
    /\ context \in LegacyContexts
    /\ clock = 0
    /\ archivesDir = TRUE
    /\ metadataFile = <<>>
    /\ archiveFiles \in {[f \in {LegacyFile} |-> c] : c \in LegacyContents}
    /\ projectRoot = InitialProject
    /\ tempDirs = EmptyTree
    /\ uiItems = <<>>
    /\ uiHistory = <<>>
    /\ clientHistory = <<>>
    /\ pc = [p \in Procs |-> "idle"]
    /\ inv = [p \in Procs |-> NoInvocation]
    /\ loc = [p \in Procs |-> NoLocals]
    /\ result = [p \in Procs |-> NoResult]
    /\ pre = [p \in Procs |-> NoSnapshot]
    /\ started = 0
    /\ edits = 0

NextLegacy ==
    \/ /\ Quiet
       /\ \E p \in Procs, args \in {LegacyFile, LegacyFile \o <<" ", "--", "force">>} :
             LoadStart(p, args, context)
    \/ \E p \in Procs, io \in IOOutcomes : LoadMkdir(p, io)
    \/ \E p \in Procs, io \in IOOutcomes : LoadReadJson(p, io)
    \/ \E p \in Procs, io \in IOOutcomes : LoadSetHistory(p, io)

SpecLegacy == InitLegacy /\ [][NextLegacy]_vars

(***************************************************************************)
(* The exclusion filter of save: the project root holds any of the entries  *)
(* below, among them siblings that share a prefix with an excluded name and *)
(* a copy of an archive the store records; one save then runs.              *)
(***************************************************************************)
RecordedArchive == archiveFileName("ok", 0)

FilterEntries ==
    {<<"src">>, <<"archives">>, <<"archives", "2">>, <<"archives", "-backup">>,
     <<".git">>, <<".git", "ignore">>, <<"node_modules">>, RecordedArchive}

InitFilter ==
    /\ context \in {"ok", "noRoot"}
    /\ clock = 0
    /\ archivesDir = FALSE
    /\ metadataFile \in
          {<<>>, << <<[filename |-> RecordedArchive, timestamp |-> 0, description |-> <<>>]>> >>}
    /\ archiveFiles = EmptyTree
    /\ projectRoot \in {[e \in entries |-> 0] : entries \in SUBSET FilterEntries}
    /\ tempDirs = EmptyTree
    /\ uiItems = <<>>
    /\ uiHistory = <<>>
    /\ clientHistory = <<>>
    /\ pc = [p \in Procs |-> "idle"]
    /\ inv = [p \in Procs |-> NoInvocation]
    /\ loc = [p \in Procs |-> NoLocals]
    /\ result = [p \in Procs |-> NoResult]
    /\ pre = [p \in Procs |-> NoSnapshot]
    /\ started = 0
    /\ edits = 0

NextFilter ==
    \/ started = 0 /\ \E p \in Procs : SaveStart(p, <<>>, context)
    \/ \E p \in Procs, io \in IOOutcomes : SaveMkdir(p, io)
    \/ \E p \in Procs, io \in IOOutcomes : SaveReadFile(p, io)
    \/ \E p \in Procs, io \in IOOutcomes, partial \in BOOLEAN : SaveTarCreate(p, io, partial)
    \/ \E p \in Procs, io \in IOOutcomes : SaveWriteFile(p, io)

SpecFilter == InitFilter /\ [][NextFilter]_vars

(***************************************************************************)
(* What the claims speak of.                                                *)
(***************************************************************************)
\* the step in which invocation p completes
Completes(p) == pc[p] # "done" /\ pc'[p] = "done"

\* the arguments hold no --force token
NoForceToken(args) ==
    \A k \in 1..Len(args) : ~(k < Len(args) /\ args[k] = "--" /\ args[k + 1] = "force")

ForceSuggestion(file) == <<"/load ">> \o file \o <<" --force">>

IsError(r) == r.type = "message" /\ r.messageType = "error"
IsInfo(r) == r.type = "message" /\ r.messageType = "info"

\* the base name of the session's project
ProjectBaseName == IF context = "noRoot" THEN "project" ELSE "test-project"

\* p is a load whose selected filename ends in .tar.gz, without --force
TarNoForce(p) ==
    /\ inv[p].cmd = "load"
    /\ endsWith(selectedFile(inv[p].args), <<".tar.gz">>)
    /\ NoForceToken(inv[p].args)

\* C1: a load of a .tar.gz file without --force performs zero filesystem
\* mutations (no directory is created, nothing is deleted, copied or extracted)
\* and returns an error holding '/load <filename> --force' for that filename.
C1_ZeroMutations ==
    [][\A p \in Procs :
          Completes(p) /\ TarNoForce(p) =>
             /\ Filesystem' = pre[p]
             /\ IsError(result'[p])
             /\ Contains(result'[p].content,
                         ForceSuggestion(selectedFile(inv[p].args)))]_vars

\* the success message of a forced restore of file
RestoreSucceeded(r, file) ==
    /\ IsInfo(r)
    /\ r.content = <<"Archive '">> \o file \o <<"' loaded and extracted successfully to ">>
                     \o ProjectRootPath \o <<".">>

KeepList == {<<".git">>, <<"node_modules">>, <<"archives">>}

\* C2: when a forced restore returns its success message, every entry the
\* project root had before the call, other than .git, node_modules and archives,
\* has been removed (what is there under its name came out of the archive), and
\* every top-level entry that was extracted is in the project root.
C2_WipedAndMovedIn ==
    [][\A p \in Procs :
          Completes(p) /\ inv[p].cmd = "load"
            /\ RestoreSucceeded(result'[p], loc'[p].selectedFile) =>
             LET before == pre[p].projectRoot
                 extracted == loc'[p].extracted[1]
             IN  /\ \A e \in DOMAIN before \ KeepList :
                       /\ e \in loc'[p].removed
                       /\ e \in DOMAIN projectRoot' => e \in DOMAIN extracted
                 /\ \A e \in DOMAIN extracted :
                       /\ e \in DOMAIN projectRoot'
                       /\ projectRoot'[e] = extracted[e]
                 /\ \A e \in DOMAIN before \cap KeepList :
                       e \notin DOMAIN extracted =>
                          e \in DOMAIN projectRoot' /\ projectRoot'[e] = before[e]]_vars

\* C2's case: a restore succeeded that removed an entry made after the save,
\* which the archive does not hold, and moved in the entries that were extracted
C2_Witness ==
    \E p \in Procs :
       /\ pc[p] = "done"
       /\ inv[p].cmd = "load"
       /\ RestoreSucceeded(result[p], loc[p].selectedFile)
       /\ \E e \in DOMAIN pre[p].projectRoot \ KeepList :
             /\ e \in loc[p].removed
             /\ e \notin DOMAIN projectRoot
       /\ \E e \in DOMAIN loc[p].extracted[1] :
             /\ e \in DOMAIN projectRoot
             /\ projectRoot[e] = loc[p].extracted[1][e]

\* C3, as claimed: the temp directory a forced restore created does not exist
\* when the invocation completes, on every exit path.
C3_TempDirGone ==
    [][\A p \in Procs :
          Completes(p) /\ loc'[p].tempDir # 0 =>
             loc'[p].tempDir \notin DOMAIN tempDirs']_vars

\* C3, amended: on every exit path of a forced restore that created a temp
\* directory (success, failure of extraction, of the wipe, of the move) the
\* final fs.rm of that directory is performed before the invocation completes;
\* the directory is gone then unless that fs.rm itself failed, and in that case
\* load returns an error.
C3_CleanupOnEveryPath ==
    [][\A p \in Procs :
          Completes(p) /\ loc'[p].tempDir # 0 =>
             /\ pc[p] = "load_cleanup"
             /\ loc'[p].cleanup \in {"removed", "failed"}
             /\ loc'[p].cleanup = "removed" => loc'[p].tempDir \notin DOMAIN tempDirs'
             /\ loc'[p].cleanup = "failed" => IsError(result'[p])]_vars

\* C3's case: a restore failed after its wipe had begun, and its temp
\* directory is gone
C3_Witness ==
    \E p \in Procs :
       /\ pc[p] = "done"
       /\ loc[p].tempDir # 0
       /\ loc[p].removed # {}
       /\ loc[p].outcome.type = "rejected"
       /\ IsError(result[p])
       /\ loc[p].tempDir \notin DOMAIN tempDirs

\* C4: neither save nor load lets an error escape: every invocation completes
\* by returning a message, never by throwing.
C4_NoErrorEscapes ==
    \A p \in Procs :
       pc[p] = "done" /\ inv[p].cmd \in {"save", "load"} => result[p].type = "message"

\* the list the sidecar holds, [] when it is absent
Store == IF metadataFile = <<>> THEN <<>> ELSE metadataFile[1]

SaveSucceeded(p) == pc[p] = "done" /\ inv[p].cmd = "save" /\ IsInfo(result[p])

\* the list a save read, and the record it pushed onto it
Prior(p) == SubSeq(loc[p].existingMetadata, 1, Len(loc[p].existingMetadata) - 1)
Own(p) == loc[p].existingMetadata[Len(loc[p].existingMetadata)]

\* C5: two saves can both read the same prior list; the write that happens
\* second then replaces the first writer's result: the store holds the prior
\* list and the second writer's record alone, though both saves succeeded.
C5_SecondWriteOverwrites ==
    [][\A p, q \in Procs :
          /\ p # q
          /\ SaveSucceeded(p)
          /\ metadataFile = <<Append(Prior(p), Own(p))>>
          /\ pc[q] = "save_writeFile"
          /\ Prior(q) = Prior(p)
          /\ Completes(q)
          /\ IsInfo(result'[q])
          => /\ metadataFile' = <<Append(Prior(q), Own(q))>>
             /\ Len(metadataFile'[1]) = Len(Prior(p)) + 1]_vars

\* C5's case: both saves returned success and the store holds one of the two
\* new records only
C5_Witness ==
    \E p, q \in Procs :
       /\ p # q
       /\ SaveSucceeded(p)
       /\ SaveSucceeded(q)
       /\ Prior(p) = Prior(q)
       /\ Own(p) # Own(q)
       /\ Store = Append(Prior(q), Own(q))
       /\ \A k \in 1..Len(Store) : Store[k] # Own(p)

DigitSet == {"0", "1", "2", "3", "4", "5", "6", "7", "8", "9"}

\* f is <projectBaseName>-archive-<YYYYMMDD-HHMMSS>.tar.gz
IsArchiveName(f) ==
    /\ Len(f) = 18
    /\ f[1] = ProjectBaseName
    /\ f[2] = "-archive-"
    /\ \A k \in 3..10 : f[k] \in DigitSet
    /\ f[11] = "-"
    /\ \A k \in 12..17 : f[k] \in DigitSet
    /\ f[18] = ".tar.gz"

Blank == {" ", "\t", "\n"}

\* t is s without its leading and trailing whitespace
IsTrimmed(t, s) ==
    /\ \E i, j \in 0..Len(s) :
          /\ i + j <= Len(s)
          /\ t = SubSeq(s, i + 1, Len(s) - j)
          /\ \A k \in 1..i : s[k] \in Blank
          /\ \A k \in (Len(s) - j + 1)..Len(s) : s[k] \in Blank
    /\ t # <<>> => t[1] \notin Blank /\ t[Len(t)] \notin Blank

\* C6: for every description, a successful save stores exactly one new record:
\* its filename is <projectBaseName>-archive-<YYYYMMDD-HHMMSS>.tar.gz ('project'
\* the base name when the root is undetermined), the name of the archive file
\* handed to the codec, and its description is the trimmed input.
C6_RecordStored ==
    [][\A p \in Procs :
          Completes(p) /\ inv[p].cmd = "save" /\ IsInfo(result'[p]) =>
             LET before == IF pre[p].metadataFile = <<>> THEN <<>> ELSE pre[p].metadataFile[1]
                 after == Store'
                 r == after[Len(after)]
             IN  /\ Len(after) = Len(before) + 1
                 /\ SubSeq(after, 1, Len(before)) = before
                 /\ IsArchiveName(r.filename)
                 /\ r.filename \in DOMAIN archiveFiles'
                 /\ archiveFiles'[r.filename].format = "tar.gz"
                 /\ IsTrimmed(r.description, inv[p].args)]_vars

\* C6's case: a description with whitespace at both ends was saved under an
\* undetermined project root
C6_Witness ==
    \E p \in Procs :
       /\ SaveSucceeded(p)
       /\ context = "noRoot"
       /\ inv[p].args = <<" ", "my", " ", "backup", "\n">>
       /\ Store # <<>>
       /\ Store[Len(Store)].description = <<"my", " ", "backup">>
       /\ Store[Len(Store)].filename[1] = "project"

\* C7: the filenames of the stored records are pairwise distinct, also when
\* two saves are started within the same clock second.
C7_FilenamesDistinct ==
    \A i, j \in 1..Len(Store) : i # j => Store[i].filename # Store[j].filename

\* p is over and was a list-mode load that rendered a list
Listed(p) ==
    /\ pc[p] = "done"
    /\ inv[p].cmd = "load"
    /\ loc[p].selectedFile = <<>>
    /\ IsInfo(result[p])
    /\ result[p].shown # <<>>

\* C8, as claimed: the lines of list mode are sorted strictly descending by
\* timestamp, whatever the stored order.
C8_StrictlyDescending ==
    \A p \in Procs :
       Listed(p) =>
          \A i, j \in 1..Len(result[p].shown) :
             i < j => result[p].shown[i].timestamp > result[p].shown[j].timestamp

\* C8, amended: the lines of list mode are sorted descending by timestamp,
\* newest first and never an older record before a newer one, whatever the
\* stored order; records of equal timestamp follow one another.
C8_Descending ==
    \A p \in Procs :
       Listed(p) =>
          /\ \A i, j \in 1..Len(result[p].shown) :
                i < j => result[p].shown[i].timestamp >= result[p].shown[j].timestamp
          /\ result[p].content =
                <<"Available archives for the current project:\n\n">> \o lines(result[p].shown)

\* C8's case: three records of the project stored oldest first were listed
C8_Witness ==
    \E p \in Procs :
       /\ Listed(p)
       /\ Len(Store) = 3
       /\ Len(result[p].shown) = 3
       /\ Store[1].timestamp < Store[2].timestamp
       /\ Store[2].timestamp < Store[3].timestamp
       /\ result[p].shown[1] = Store[3]

\* the filename starts with '<projectBaseName>-archive-'
HasProjectPrefix(f) == Len(f) >= 2 /\ f[1] = ProjectBaseName /\ f[2] = "-archive-"

Count(seq, r) == Cardinality({k \in 1..Len(seq) : seq[k] = r})

\* p is over and read the sidecar without an error
ReadStore(p) ==
    /\ pc[p] = "done"
    /\ context \in {"ok", "noRoot"}
    /\ result[p].type # "rejected"
    /\ loc[p].caught = <<>>

\* C9: a record whose filename does not start with '<projectBaseName>-archive-'
\* appears neither in the list of list mode nor in the suggestions of
\* completion; every record whose filename does appears in both.
C9_ProjectFilter ==
    \A p \in Procs :
       ReadStore(p) =>
          \A k \in 1..Len(Store) :
             LET r == Store[k]
             IN  IF HasProjectPrefix(r.filename)
                 THEN /\ Count(result[p].shown, r) = Count(Store, r)
                      /\ inv[p].cmd = "load" =>
                            Contains(result[p].content, <<"- ">> \o r.filename)
                      /\ inv[p].cmd = "completion" =>
                            \E c \in 1..Len(result[p].content) :
                               /\ result[p].content[c].label = r.filename
                               /\ result[p].content[c].value = r.filename
                 ELSE /\ Count(result[p].shown, r) = 0
                      /\ inv[p].cmd = "load" =>
                            ~Contains(result[p].content, <<"- ">> \o r.filename)
                      /\ inv[p].cmd = "completion" =>
                            \A c \in 1..Len(result[p].content) :
                               result[p].content[c].label # r.filename

\* C9's case: the store holds records of this project and of another one, and
\* the list was rendered
C9_Witness ==
    \E p \in Procs :
       /\ Listed(p)
       /\ \E k \in 1..Len(Store) : ~HasProjectPrefix(Store[k].filename)
       /\ \E k \in 1..Len(Store) : HasProjectPrefix(Store[k].filename)
       /\ Len(result[p].shown) < Len(Store)

\* C10: when the store holds no record of the current project (the list is
\* empty, or there is no sidecar), load without a filename returns the info
\* message 'No saved archives found for the current project.' and completion
\* returns the empty list.
C10_NoneFound ==
    \A p \in Procs :
       ReadStore(p) /\ (\A k \in 1..Len(Store) : ~HasProjectPrefix(Store[k].filename)) =>
          /\ inv[p].cmd = "load" =>
                /\ IsInfo(result[p])
                /\ result[p].content = <<"No saved archives found for the current project.">>
          /\ inv[p].cmd = "completion" =>
                result[p].type = "candidates" /\ result[p].content = <<>>

\* C10's case: there is no sidecar, and list mode said that nothing is saved
C10_Witness ==
    \E p \in Procs :
       /\ ReadStore(p)
       /\ inv[p].cmd = "load"
       /\ metadataFile = <<>>
       /\ result[p].content = <<"No saved archives found for the current project.">>

\* the filename token of an argument string made of one filename token and a
\* --force token, in either order; '' for other argument strings
FileBesideForce(args) ==
    IF Len(args) > 3 /\ SubSeq(args, Len(args) - 2, Len(args)) = <<" ", "--", "force">>
    THEN SubSeq(args, 1, Len(args) - 3)
    ELSE IF Len(args) > 3 /\ SubSeq(args, 1, 3) = <<"--", "force", " ">>
    THEN SubSeq(args, 4, Len(args))
    ELSE <<>>

\* the step in which load p, past getArchivesDir, has parsed its arguments
ParsesArgs(p) ==
    /\ pc[p] = "load_mkdir"
    /\ pc'[p] # "load_mkdir"
    /\ ~(pc'[p] = "done" /\ result'[p].type = "rejected")

\* C11: for every load argument string of one filename token and a --force
\* token, in either order, the force flag is set and the filename token is the
\* selected file, so that restore mode (not list mode) is entered for it.
C11_ForceAnywhere ==
    [][\A p \in Procs :
          ParsesArgs(p) /\ FileBesideForce(inv[p].args) # <<>> =>
             /\ loc'[p].forceConfirm
             /\ loc'[p].selectedFile = FileBesideForce(inv[p].args)
             /\ pc'[p] # "load_readFile"]_vars

\* C14: the completion provider of load never propagates an error: whatever
\* step fails (creating the archive directory, reading or parsing the sidecar),
\* it resolves to a suggestion list, the empty one.
C14_CompletionNeverThrows ==
    \A p \in Procs :
       pc[p] = "done" /\ inv[p].cmd = "completion" =>
          /\ result[p].type = "candidates"
          /\ loc[p].caught # <<>> => result[p].content = <<>>

\* the suggestion of a record
Suggestion(r) == [label |-> r.filename, value |-> r.filename, description |-> r.description]

Begins(p) == inv'[p].id # inv[p].id

\* C16: when the configuration is missing or the project temp directory cannot
\* be resolved, save and load return an error message (they do not throw) in
\* the step they begin, before any side effect: no directory is created, no
\* file is read or written, no UI event is appended, the codec is not invoked.
C16_AbortsBeforeSideEffects ==
    [][\A p \in Procs :
          Begins(p) /\ inv'[p].cmd \in {"save", "load"}
            /\ context \in {"noConfig", "noTempDir"} =>
             /\ pc'[p] = "done"
             /\ IsError(result'[p])
             /\ result'[p].content =
                   IF context = "noConfig"
                   THEN <<"Configuration not available.">>
                   ELSE <<"Could not determine the .gemini directory path.">>
             /\ UNCHANGED <<fsVars, uiVars>>]_vars

\* C16's case: a save without a project temp directory is over with the error,
\* and no archive directory, sidecar, archive or UI event exists
C16_Witness ==
    \E p \in Procs :
       /\ pc[p] = "done"
       /\ inv[p].cmd = "save"
       /\ context = "noTempDir"
       /\ result[p] = Message("error", <<"Could not determine the .gemini directory path.">>)
       /\ ~archivesDir
       /\ metadataFile = <<>>
       /\ DOMAIN archiveFiles = {}
       /\ uiItems = <<>>

\* the path of an archive file
ArchivePath(name) == ProjectTempDirPath \o <<"/", "archives", "/">> \o name

\* the progress event and the completion event of the save of record r
ProgressEvent(r) ==
    [type |-> "info", text |-> <<"Creating archive: ">> \o ArchivePath(r.filename),
     timestamp |-> r.timestamp]

CompletionEvent(r) ==
    [type |-> "info", text |-> <<"Archive created successfully: ">> \o ArchivePath(r.filename),
     timestamp |-> r.timestamp]

IsCompletionEvent(e) == e.text[1] = "Archive created successfully: "

CompletionEvents(log) == {k \in 1..Len(log) : IsCompletionEvent(log[k])}

\* C17: in every successful save the progress event is in the UI event log
\* before the codec is invoked, the completion event is appended only once the
\* new record has been persisted, and both events carry the timestamp of the
\* stored record.
C17_EventOrder ==
    [][\A p \in Procs :
          /\ pc[p] = "save_readFile" /\ pc'[p] = "save_tarCreate" =>
                \E k \in 1..Len(uiItems) :
                   /\ uiItems[k].text =
                         <<"Creating archive: ">> \o ArchivePath(loc[p].archiveFileName)
                   /\ uiItems[k].timestamp = loc[p].timestamp
          /\ Cardinality(CompletionEvents(uiItems')) > Cardinality(CompletionEvents(uiItems)) =>
                /\ Len(uiItems') = Len(uiItems) + 1
                /\ Len(Store') = Len(Store) + 1
                /\ uiItems'[Len(uiItems')] = CompletionEvent(Store'[Len(Store')])
          /\ Completes(p) /\ inv[p].cmd = "save" /\ IsInfo(result'[p]) =>
                LET r == Store'[Len(Store')]
                IN  /\ r = Own(p)
                    /\ uiItems'[Len(uiItems')] = CompletionEvent(r)
                    /\ uiItems'[Len(uiItems') - 1] = ProgressEvent(r)]_vars

\* C17's case: a save that read the clock after it had advanced succeeded, and
\* the log holds its two events, stamped like its record
C17_Witness ==
    \E p \in Procs :
       /\ SaveSucceeded(p)
       /\ Own(p).timestamp > 0
       /\ Store # <<>>
       /\ Store[Len(Store)] = Own(p)
       /\ Len(uiItems) >= 2
       /\ uiItems[Len(uiItems) - 1] = ProgressEvent(Own(p))
       /\ uiItems[Len(uiItems)] = CompletionEvent(Own(p))

\* the list the sidecar held when invocation p began
StoreBefore(p) == IF pre[p].metadataFile = <<>> THEN <<>> ELSE pre[p].metadataFile[1]

\* C20: a successful save that does not interleave with another save leaves
\* the Metadata Store equal to its prior list, unchanged and in the same order,
\* with exactly one new record appended at the end; hence after n successful
\* saves, one after the other, the store holds n records more than before.
C20_AppendOnly ==
    /\ [][\A p \in Procs :
             Completes(p) /\ inv[p].cmd = "save" /\ IsInfo(result'[p]) =>
                /\ StoreBefore(p) = Store
                /\ Len(Store') = Len(Store) + 1
                /\ \A k \in 1..Len(Store) : Store'[k] = Store[k]
                /\ Store'[Len(Store')].timestamp = loc[p].timestamp]_vars
    /\ [](Len(Store) = Cardinality(CompletionEvents(uiItems)))

\* C20's case: two saves succeeded one after the other, the second with a
\* record unlike the first, and the store holds the two records in that order
C20_Witness ==
    \E p \in Procs :
       /\ SaveSucceeded(p)
       /\ Len(Store) = 2
       /\ Store[1] # Store[2]
       /\ StoreBefore(p) = <<Store[1]>>
       /\ Store[2] = Own(p)
       /\ Cardinality(CompletionEvents(uiItems)) = 2

\* C19: reading the Metadata Store yields the empty list when the sidecar is
\* absent, and that is no error (list mode answers with an info message, a
\* first save stores a list of one record); every other failure of the read
\* propagates to the caller: list mode returns an error message that holds the
\* cause, save returns an error and stores nothing.
C19_AbsentIsEmpty ==
    [][\A p \in Procs :
          /\ pc[p] = "load_readFile" /\ Completes(p) /\ loc'[p].caught = <<>>
               /\ metadataFile = <<>> =>
                /\ loc'[p].archives = <<>>
                /\ IsInfo(result'[p])
          /\ pc[p] = "save_readFile" /\ pc'[p] = "save_tarCreate" /\ metadataFile = <<>> =>
                loc'[p].existingMetadata = <<>>
          /\ Completes(p) /\ inv[p].cmd = "save" /\ IsInfo(result'[p])
               /\ pre[p].metadataFile = <<>> =>
                Len(Store') = 1
          /\ pc[p] = "load_readFile" /\ Completes(p) /\ loc'[p].caught # <<>> =>
                /\ IsError(result'[p])
                /\ result'[p].content = <<"Error loading archives: ">> \o loc'[p].caught
          /\ pc[p] = "save_readFile" /\ Completes(p) =>
                /\ IsError(result'[p])
                /\ Contains(result'[p].content, EACCES)
                /\ metadataFile' = metadataFile]_vars

\* C19's case: the read of list mode failed for another reason than absence,
\* and the error message that came back names the cause
C19_Witness ==
    \E p \in Procs :
       /\ pc[p] = "done"
       /\ inv[p].cmd = "load"
       /\ loc[p].selectedFile = <<>>
       /\ loc[p].caught = EACCES
       /\ result[p] = Message("error", <<"Error loading archives: ">> \o EACCES)

\* f is a file of the archive directory that no record of the store names
Unrecorded(f) ==
    /\ f \in DOMAIN archiveFiles
    /\ \A k \in 1..Len(Store) : Store[k].filename # f

\* C18: the Metadata Store alone decides which archives are known: an archive
\* file that is in the archive directory without a record appears neither in
\* list mode nor in completion, yet load with that exact filename (and --force)
\* enters restore mode for it and extracts it: restore does not consult the
\* store.
C18_StoreDecidesKnown ==
    [][\A p \in Procs :
          /\ Completes(p) /\ pc[p] \in {"load_readFile", "completion_readFile"} =>
                \A f \in DOMAIN archiveFiles :
                   Unrecorded(f) =>
                      /\ \A k \in 1..Len(result'[p].shown) : result'[p].shown[k].filename # f
                      /\ inv[p].cmd = "load" => ~Contains(result'[p].content, f)
                      /\ inv[p].cmd = "completion" =>
                            \A k \in 1..Len(result'[p].content) :
                               /\ result'[p].content[k].label # f
                               /\ result'[p].content[k].value # f
          /\ ParsesArgs(p) /\ context = "ok"
               /\ (\E f \in DOMAIN archiveFiles :
                      endsWith(f, <<".tar.gz">>) /\ inv[p].args = f \o <<" ", "--", "force">>) =>
                /\ pc'[p] = "load_mkdtemp"
                /\ loc'[p].selectedFile \in DOMAIN archiveFiles
                /\ inv[p].args = loc'[p].selectedFile \o <<" ", "--", "force">>
          /\ pc[p] = "load_extract" /\ pc'[p] = "load_readdirRoot" =>
                /\ loc'[p].selectedFile \in DOMAIN archiveFiles
                /\ loc'[p].extracted = <<archiveFiles[loc'[p].selectedFile].entries>>
                /\ tempDirs'[loc'[p].tempDir] = archiveFiles[loc'[p].selectedFile].entries]_vars

\* C18's case: an archive whose record was never stored (the write of the
\* sidecar failed) was restored by its exact filename
C18_Witness ==
    \E p \in Procs :
       /\ pc[p] = "done"
       /\ inv[p].cmd = "load"
       /\ Unrecorded(loc[p].selectedFile)
       /\ archiveFiles[loc[p].selectedFile].format = "tar.gz"
       /\ RestoreSucceeded(result[p], loc[p].selectedFile)
       /\ \A e \in DOMAIN archiveFiles[loc[p].selectedFile].entries : e \in DOMAIN projectRoot

\* the step in which load p has read its selected file and parsed it as JSON
ParsesJson(p) ==
    /\ pc[p] = "load_readJson"
    /\ pc'[p] # "load_readJson"
    /\ loc'[p].caught = <<>>

\* what the selected file of p holds
FileData(p) == archiveFiles[loc[p].selectedFile].entries

\* the field holds a value (null counts as absent)
Present(v) == v.kind = "array"

LoadedMessage(p) ==
    Message("info", <<"Archive '">> \o loc[p].selectedFile \o <<"' loaded successfully.">>)

\* C12, as claimed: for a file that is no .tar.gz and parses as JSON, the UI
\* history sink is called exactly once with `history` iff that field is
\* present, the chat-client sink exactly once with `clientHistory` iff that field
\* is present, and the success message naming the file is returned.
C12_SinksIffPresent ==
    [][\A p \in Procs :
          /\ ParsesJson(p) =>
                /\ uiHistory' = IF Present(FileData(p).history)
                                THEN Append(uiHistory, FileData(p).history)
                                ELSE uiHistory
                /\ clientHistory' = IF Present(FileData(p).clientHistory)
                                    THEN Append(clientHistory, FileData(p).clientHistory)
                                    ELSE clientHistory
          /\ Completes(p) /\ (ParsesJson(p) \/ pc[p] = "load_setHistory") =>
                result'[p] = LoadedMessage(p)]_vars

\* C12, amended: for a file that is no .tar.gz and parses as JSON no force flag
\* is required.  Unless `history` is present while the UI has no loadHistory
\* sink, the UI history sink is called exactly once with `history` iff that
\* field is present (null counts as absent); the chat-client sink is called
\* exactly once with `clientHistory` iff that field is present and the
\* configuration has a chat client, so a file with `history` alone never
\* reaches it; and the success message naming the file is returned unless the
\* chat-client sink fails, which yields an error message.  No other step of
\* load calls a sink.
C12_SinksWhenAvailable ==
    [][/\ \A p \in Procs :
             /\ ParsesArgs(p) /\ selectedFile(inv[p].args) # <<>>
                  /\ ~endsWith(selectedFile(inv[p].args), <<".tar.gz">>) =>
                   pc'[p] = "load_readJson"
             /\ ParsesJson(p)
                  /\ ~(Present(FileData(p).history) /\ context = "noLoadHistory") =>
                   /\ uiHistory' = IF Present(FileData(p).history)
                                   THEN Append(uiHistory, FileData(p).history)
                                   ELSE uiHistory
                   /\ clientHistory' =
                         IF Present(FileData(p).clientHistory) /\ context # "noClient"
                         THEN Append(clientHistory, FileData(p).clientHistory)
                         ELSE clientHistory
                   /\ pc'[p] = "done" => result'[p] = LoadedMessage(p)
                   /\ pc'[p] # "done" =>
                         /\ pc'[p] = "load_setHistory"
                         /\ clientHistory' # clientHistory
             /\ pc[p] = "load_setHistory" /\ pc'[p] # "load_setHistory" =>
                   /\ pc'[p] = "done"
                   /\ UNCHANGED <<uiHistory, clientHistory>>
                   /\ IF loc'[p].caught = <<>>
                      THEN result'[p] = LoadedMessage(p)
                      ELSE IsError(result'[p])
       /\ (uiHistory' # uiHistory \/ clientHistory' # clientHistory) =>
             \E p \in Procs : ParsesJson(p)]_vars

\* C12's case: a file with `history` alone was loaded without --force: the UI
\* sink was called once with it, the chat-client sink never
C12_Witness ==
    \E p \in Procs :
       /\ pc[p] = "done"
       /\ started = 1
       /\ context = "ok"
       /\ inv[p].args = LegacyFile
       /\ loc[p].selectedFile = LegacyFile
       /\ archiveFiles[LegacyFile].format = "json"
       /\ FileData(p).history = JsonArray(<<"turn">>)
       /\ FileData(p).clientHistory = JsonUndefined
       /\ uiHistory = <<JsonArray(<<"turn">>)>>
       /\ clientHistory = <<>>
       /\ result[p] = LoadedMessage(p)

\* C13: when a legacy file has a `history` field and the UI has no loadHistory
\* sink, load returns an error message and mutates nothing: neither sink is
\* called, even if `clientHistory` is present too.
C13_NoSinkNoMutation ==
    [][\A p \in Procs :
          ParsesJson(p) /\ context = "noLoadHistory" /\ Present(FileData(p).history) =>
             /\ pc'[p] = "done"
             /\ result'[p] = Message("error", <<"loadHistory function is not available.">>)
             /\ UNCHANGED <<uiHistory, clientHistory, uiItems, fsVars>>]_vars

\* C13's case: a file with both fields was loaded in a UI without the sink:
\* the error came back and no sink was called
C13_Witness ==
    \E p \in Procs :
       /\ pc[p] = "done"
       /\ context = "noLoadHistory"
       /\ loc[p].selectedFile = LegacyFile
       /\ archiveFiles[LegacyFile].format = "json"
       /\ Present(FileData(p).history)
       /\ Present(FileData(p).clientHistory)
       /\ result[p] = Message("error", <<"loadHistory function is not available.">>)
       /\ uiHistory = <<>>
       /\ clientHistory = <<>>
       /\ Filesystem = pre[p]

\* C21: if the codec fails during save, the Metadata Store is left unchanged
\* (no record of the attempted archive is written), no completion event is
\* appended to the UI log, and save returns an error message; if the codec
\* succeeds and persisting the metadata fails, save returns an error too, no
\* record is written and the archive file stays on disk (no rollback).
C21_NoRecordOnFailure ==
    [][\A p \in Procs :
          /\ pc[p] = "save_tarCreate" /\ Completes(p) =>
                /\ metadataFile' = metadataFile
                /\ metadataFile' = pre[p].metadataFile
                /\ uiItems' = uiItems
                /\ ~IsCompletionEvent(uiItems'[Len(uiItems')])
                /\ IsError(result'[p])
          /\ pc[p] = "save_writeFile" /\ Completes(p) /\ ~IsInfo(result'[p]) =>
                /\ IsError(result'[p])
                /\ Len(Store') = Len(StoreBefore(p))
                /\ uiItems' = uiItems
                /\ loc[p].archiveFileName \in DOMAIN archiveFiles'
                /\ archiveFiles'[loc[p].archiveFileName].format = "tar.gz"
                /\ archiveFiles' = archiveFiles
                /\ (\A k \in 1..Len(StoreBefore(p)) :
                       StoreBefore(p)[k].filename # loc[p].archiveFileName)
                     => Unrecorded(loc[p].archiveFileName)']_vars

\* C21's case: the codec wrote the archive, the write of the sidecar failed:
\* save returned an error, the archive is on disk and no record names it
C21_Witness ==
    \E p \in Procs :
       /\ pc[p] = "done"
       /\ inv[p].cmd = "save"
       /\ IsError(result[p])
       /\ loc[p].archiveFileName \in DOMAIN archiveFiles
       /\ archiveFiles[loc[p].archiveFileName].format = "tar.gz"
       /\ Unrecorded(loc[p].archiveFileName)
       /\ Len(loc[p].existingMetadata) = Len(Store) + 1
       /\ CompletionEvents(uiItems) = {}

\* x is a prefix of e, as plain strings
IsStringPrefix(x, e) == Len(x) <= Len(e) /\ \A k \in 1..Len(x) : e[k] = x[k]

\* C22: during save the exclusion set is {node_modules, .git, archives} and
\* every filename recorded in the Metadata Store, and a project entry is in the
\* archive iff its relative path, a leading './' stripped, does not start, as a
\* plain string prefix, with a name of that set; a sibling entry such as
\* 'archives2' or 'archives-backup' is therefore excluded too.
C22_PrefixExclusion ==
    [][\A p \in Procs :
          pc[p] = "save_tarCreate" /\ pc'[p] = "save_writeFile" =>
             LET exclusion == {<<"node_modules">>, <<".git">>, <<"archives">>}
                                \cup {Store[k].filename : k \in 1..Len(Store)}
                 archived == archiveFiles'[loc[p].archiveFileName].entries
             IN  /\ loc[p].existingMetadata = Store
                 /\ DOMAIN archived =
                       {e \in DOMAIN projectRoot :
                           ~ \E x \in exclusion : IsStringPrefix(x, e)}
                 /\ \A e \in DOMAIN archived : archived[e] = projectRoot[e]
                 /\ <<"archives", "2">> \notin DOMAIN archived
                 /\ <<"archives", "-backup">> \notin DOMAIN archived]_vars

\* C22's case: a project with sources, the siblings 'archives2' and
\* 'archives-backup', and a copy of a recorded archive was saved: the archive
\* holds the sources alone
C22_Witness ==
    \E p \in Procs :
       /\ SaveSucceeded(p)
       /\ Len(Store) = 2
       /\ {<<"src">>, <<"archives", "2">>, <<"archives", "-backup">>, RecordedArchive}
             \subseteq DOMAIN projectRoot
       /\ DOMAIN archiveFiles[loc[p].archiveFileName].entries = {<<"src">>}

\* C23: the wipe phase of a forced restore never deletes a project-root entry
\* named .git, node_modules or archives: each such entry that was there before
\* the wipe is there after it, as it was.
C23_WipeKeepsKeepList ==
    [][\A p \in Procs :
          /\ pc[p] = "load_rm" =>
                \A e \in KeepList \cap DOMAIN projectRoot :
                   /\ loc[p].item # e
                   /\ e \in DOMAIN projectRoot'
                   /\ projectRoot'[e] = projectRoot[e]
          /\ pc[p] \in {"load_readdirRoot", "load_rm"} /\ pc'[p] = "load_readdirTemp" =>
                \A e \in KeepList \cap DOMAIN pre[p].projectRoot :
                   /\ e \in DOMAIN projectRoot'
                   /\ projectRoot'[e] = pre[p].projectRoot[e]
                   /\ e \notin loc'[p].removed]_vars

\* C23's case: the wipe of a forced restore is over, it deleted an entry, and
\* .git, node_modules and archives are in the project root
C23_Witness ==
    \E p \in Procs :
       /\ pc[p] = "load_readdirTemp"
       /\ loc[p].removed # {}
       /\ KeepList \subseteq DOMAIN pre[p].projectRoot
       /\ KeepList \subseteq DOMAIN projectRoot
       /\ \A e \in loc[p].removed : e \notin DOMAIN projectRoot

\* the wipe of restore p has begun and a later step of it has failed
FailedAfterWipeBegan(p) ==
    /\ inv[p].cmd = "load"
    /\ loc[p].tempDir # 0
    /\ loc[p].extracted # <<>>
    /\ loc[p].outcome.type = "rejected"
    /\ loc[p].removed # {} \/ loc[p].item # <<>>

\* C24: if a step of a forced restore fails after the wipe has begun (a
\* deletion, or a copy or remove of the move phase), load returns an error
\* message that names the selected file and rolls nothing back: the entries
\* already deleted from the project root are not restored.
C24_NoRollback ==
    [][\A p \in Procs :
          Completes(p) /\ FailedAfterWipeBegan(p) =>
             /\ IsError(result'[p])
             /\ startsWith(result'[p].content,
                           <<"Error loading archive ">> \o loc[p].selectedFile \o <<": ">>)
             /\ projectRoot' = projectRoot
             /\ \A e \in loc[p].removed :
                   e \in DOMAIN projectRoot' =>
                      /\ e \in DOMAIN loc[p].extracted[1]
                      /\ e \notin loc[p].extractedContents
                      /\ projectRoot'[e] = loc[p].extracted[1][e]]_vars

\* C24's case: the restore failed in its move phase, and the project root
\* holds neither what it held before nor all that was extracted
C24_Witness ==
    \E p \in Procs :
       /\ pc[p] = "done"
       /\ FailedAfterWipeBegan(p)
       /\ IsError(result[p])
       /\ Contains(result[p].content, loc[p].selectedFile)
       /\ projectRoot # pre[p].projectRoot
       /\ \E e \in DOMAIN pre[p].projectRoot : e \notin DOMAIN projectRoot
       /\ \E e \in DOMAIN loc[p].extracted[1] : e \notin DOMAIN projectRoot

\* p is a forced restore, past its arguments
ForcedRestore(p) ==
    /\ inv[p].cmd = "load"
    /\ loc[p].forceConfirm
    /\ endsWith(loc[p].selectedFile, <<".tar.gz">>)

\* C25: in a forced restore no project-root entry is deleted or replaced
\* before the extraction into the temp directory has completed: a step of the
\* restore changes the project root only after the archive was extracted, and
\* if creating the temp directory or extracting the archive fails (the named
\* file does not exist, say) the project root is left exactly as it was and an
\* error message is returned.
C25_ExtractBeforeWipe ==
    [][\A p \in Procs :
          /\ pc[p] \notin {"idle", "done"} /\ inv[p].cmd = "load"
               /\ projectRoot' # projectRoot =>
                /\ ForcedRestore(p)
                /\ loc[p].extracted # <<>>
                /\ loc[p].selectedFile \in DOMAIN archiveFiles
                /\ loc[p].extracted[1] = archiveFiles[loc[p].selectedFile].entries
          /\ pc[p] = "load_mkdtemp" /\ Completes(p) =>
                /\ projectRoot' = pre[p].projectRoot
                /\ IsError(result'[p])
          /\ Completes(p) /\ ForcedRestore(p) /\ loc[p].tempDir # 0
               /\ loc[p].extracted = <<>> =>
                /\ projectRoot' = pre[p].projectRoot
                /\ IsError(result'[p])
                /\ Contains(result'[p].content, loc[p].selectedFile)]_vars

\* C25's case: a forced restore named an archive that does not exist: the
\* extraction failed, the error came back, the project root is as it was
C25_Witness ==
    \E p \in Procs :
       /\ pc[p] = "done"
       /\ ForcedRestore(p)
       /\ loc[p].selectedFile = MissingArchive
       /\ loc[p].tempDir # 0
       /\ loc[p].outcome = Thrown(ENOENT)
       /\ IsError(result[p])
       /\ projectRoot = pre[p].projectRoot
       /\ <<"src">> \in DOMAIN projectRoot

\* C26: no invocation of load, in any mode, and no invocation of the completion
\* provider changes the contents of the Metadata Store or deletes or modifies a
\* file of the archive directory; only save writes the store.
C26_LoadLeavesStore ==
    [][/\ metadataFile' # metadataFile =>
             \E p \in Procs : inv[p].cmd = "save" /\ pc[p] = "save_writeFile"
       /\ archiveFiles' # archiveFiles =>
             \E p \in Procs : inv[p].cmd = "save" /\ pc[p] = "save_tarCreate"
       /\ \A p \in Procs :
             /\ pc[p] \notin {"idle", "done"} /\ inv[p].cmd \in {"load", "completion"}
                  /\ pc'[p] # pc[p] =>
                   /\ metadataFile' = metadataFile
                   /\ archiveFiles' = archiveFiles
             /\ Completes(p) /\ inv[p].cmd \in {"load", "completion"} =>
                   /\ metadataFile' = pre[p].metadataFile
                   /\ archiveFiles' = pre[p].archiveFiles]_vars

\* C26's case: a forced restore succeeded, and the store and the files of the
\* archive directory are what they were when it began
C26_Witness ==
    \E p \in Procs :
       /\ pc[p] = "done"
       /\ inv[p].cmd = "load"
       /\ RestoreSucceeded(result[p], loc[p].selectedFile)
       /\ Store # <<>>
       /\ metadataFile = pre[p].metadataFile
       /\ loc[p].selectedFile \in DOMAIN archiveFiles
       /\ archiveFiles = pre[p].archiveFiles

====
